---- MODULE Spec2Model ----
(***************************************************************************)
(* The stochastic sequence generator of src/sequences/random_markov.py:    *)
(* markov() builds a random transition matrix, samples one operator per    *)
(* state, and runs the recurrence through a MarkovChain.                   *)
(*                                                                         *)
(* Probabilities are exact rationals <<num, den>> in lowest terms; the     *)
(* values random.random() returns are drawn from DrawVals, the indices     *)
(* random.sample() draws from 0..MaxPick-1, the constants of synthesized   *)
(* operators from 1..5 as random.randint(1, 5) does.                       *)
(***************************************************************************)
EXTENDS Integers, Sequences, FiniteSets, TLC

\* ---------------------------------------------------------------- bounds
MaxStates == 2
MaxSteps == 5
MaxPick == 2
MaxExtra == 1
MaxOperand == 2

\* ------------------------------------------------------------- constants
\* row[i] *= 0.2
Damping == <<1, 5>>
\* random.randint(1, 5)
SynthConstants == 1..5

\* The values a call of random.random() may return: 0, 1/3 and 2/3.
DrawVals == {<<0, 1>>, <<1, 3>>, <<2, 3>>}

\* The seed lists a caller passes.
SeedLists == {<< >>, <<5>>, <<2, 3>>, <<1, 4, 2>>}

\* --------------------------------------------------------- rational numbers
RECURSIVE GCD(_, _)
GCD(a, b) == IF b = 0 THEN a ELSE GCD(b, a % b)

Frac(n, d) == LET g == GCD(n, d) IN <<n \div g, d \div g>>
FracMul(p, q) == Frac(p[1] * q[1], p[2] * q[2])
FracAdd(p, q) == Frac(p[1] * q[2] + q[1] * p[2], p[2] * q[2])
FracDiv(p, q) == Frac(p[1] * q[2], p[2] * q[1])
FracLess(p, q) == p[1] * q[2] < q[1] * p[2]
FracLeq(p, q) == p[1] * q[2] <= q[1] * p[2]
Zero == <<0, 1>>
One == <<1, 1>>

RECURSIVE FracSum(_)
FracSum(s) == IF s = << >> THEN Zero ELSE FracAdd(Head(s), FracSum(Tail(s)))

\* cum[k] = s[1] + ... + s[k]  (itertools.accumulate)
Accumulate(s) == [k \in 1..Len(s) |-> FracSum(SubSeq(s, 1, k))]

\* ------------------------------------------------------------ python lists
\* Python's list indexing: -len <= k < len, negative k counts from the end.
PyIndexOK(s, k) == -Len(s) <= k /\ k < Len(s)
PyGet(s, k) == IF k >= 0 THEN s[k + 1] ELSE s[Len(s) + k + 1]

\* Python's // for any non-zero divisor.
FloorDiv(a, b) == IF b > 0 THEN a \div b ELSE (-a) \div (-b)
Abs(a) == IF a < 0 THEN -a ELSE a
Max2(a, b) == IF a >= b THEN a ELSE b
Min2(a, b) == IF a <= b THEN a ELSE b

\* ------------------------------------------------------------ operator pool
\* The catalogue: entry k is the pair (function, label); a function is
\* <<"pool", k>> for the k-th lambda of the catalogue and <<"addc", c>> for a
\* synthesized lambda x, y, c=c: x + y + c.
operation_pool ==
    << [fn |-> <<"pool", 1>>,  label |-> "x + y"],
       [fn |-> <<"pool", 2>>,  label |-> "x - y"],
       [fn |-> <<"pool", 3>>,  label |-> "y - x"],
       [fn |-> <<"pool", 4>>,  label |-> "x + y + 1"],
       [fn |-> <<"pool", 5>>,  label |-> "x - y + 1"],
       [fn |-> <<"pool", 6>>,  label |-> "abs(x - y)"],
       [fn |-> <<"pool", 7>>,  label |-> "(x + y) // 2"],
       [fn |-> <<"pool", 8>>,  label |-> "(x - y) // 2"],
       [fn |-> <<"pool", 9>>,  label |-> "(y - x) // 2"],
       [fn |-> <<"pool", 10>>, label |-> "max(x, y)"],
       [fn |-> <<"pool", 11>>, label |-> "min(x, y)"],
       [fn |-> <<"pool", 12>>, label |-> "x * 2"],
       [fn |-> <<"pool", 13>>, label |-> "y * 2"],
       [fn |-> <<"pool", 14>>, label |-> "(x + y) * 2"],
       [fn |-> <<"pool", 15>>, label |-> "x // y"],
       [fn |-> <<"pool", 16>>, label |-> "y // x"] >>

PoolSize == Len(operation_pool)

\* A plausible slip: the two division lambdas without their guards.
DivisorUnguarded(k, x, y) ==
    CASE k \in {7, 8, 9} -> 2
      [] k = 15 -> y
      [] k = 16 -> x
      [] OTHER -> 1

\* What the k-th lambda of the catalogue divides by on (x, y); 1 for the
\* lambdas without a division.
Divisor(k, x, y) ==
    CASE k \in {7, 8, 9} -> 2
      [] k = 15 -> IF y # 0 THEN y ELSE 1
      [] k = 16 -> IF x # 0 THEN x ELSE 1
      [] OTHER -> 1

\* The value of the k-th lambda of the catalogue on (x, y).
PoolApply(k, x, y) ==
    CASE k = 1  -> x + y
      [] k = 2  -> x - y
      [] k = 3  -> y - x
      [] k = 4  -> x + y + 1
      [] k = 5  -> x - y + 1
      [] k = 6  -> Abs(x - y)
      [] k = 7  -> FloorDiv(x + y, 2)
      [] k = 8  -> IF (x - y) % 2 = 0 THEN FloorDiv(x - y, 2)
                                      ELSE FloorDiv(x - y + 1, 2)
      [] k = 9  -> IF (y - x) % 2 = 0 THEN FloorDiv(y - x, 2)
                                      ELSE FloorDiv(y - x + 1, 2)
      [] k = 10 -> Max2(x, y)
      [] k = 11 -> Min2(x, y)
      [] k = 12 -> x * 2
      [] k = 13 -> y * 2
      [] k = 14 -> (x + y) * 2
      [] k = 15 -> FloorDiv(x, Divisor(15, x, y))
      [] k = 16 -> FloorDiv(y, Divisor(16, x, y))

\* Calling a function of functions_matrix.
Apply(fn, x, y) ==
    IF fn[1] = "pool" THEN PoolApply(fn[2], x, y) ELSE x + y + fn[2]

\* The call raises ZeroDivisionError: Python's // with a zero divisor.
ApplyRaises(fn, x, y) == fn[1] = "pool" /\ Divisor(fn[2], x, y) = 0

\* f"x + y + {c}" for the constants randint(1, 5) returns.
SynthLabel(c) ==
    CASE c = 1 -> "x + y + 1"
      [] c = 2 -> "x + y + 2"
      [] c = 3 -> "x + y + 3"
      [] c = 4 -> "x + y + 4"
      [] c = 5 -> "x + y + 5"

\* ------------------------------------------------------- transition matrix
\* row[i] *= 0.2 on the list of the n draws of row i (i counts from 0).
DampRow(i, row) ==
    [j \in 1..Len(row) |-> IF j = i + 1 THEN FracMul(row[j], Damping) ELSE row[j]]

\* row_sum = sum(row); row = [p / row_sum for p in row]
NormalizeRow(row) ==
    [j \in 1..Len(row) |-> FracDiv(row[j], FracSum(row))]

\* A plausible slip: the diagonal is damped after the row was normalised.
MakeRowDampAfter(i, row) == DampRow(i, NormalizeRow(row))

\* One iteration of the loop that builds the matrix, given the n draws.
MakeRow(i, row) == NormalizeRow(DampRow(i, row))

\* The matrix the loop builds from one list of draws per row.
BuildMatrix(n, rows) == [i \in 1..n |-> MakeRow(i - 1, rows[i])]

\* ------------------------------------------------------------------ random
\* bisect.bisect_right(a, x, lo, hi) on a sorted list a (indices from 0).
BisectRight(a, x, lo, hi) ==
    lo + Cardinality({k \in lo..(hi - 1) : FracLeq(a[k + 1], x)})

\* A slip in the weighted choice: the states are numbered from 1.
ChoicesFromOne(weights, u) ==
    LET cum_weights == Accumulate(weights)
        total == cum_weights[Len(weights)]
    IN  BisectRight(cum_weights, FracMul(u, total), 0, Len(weights) - 1) + 1

\* random.choices(range(len(weights)), weights)[0] when random() returns u.
Choices(weights, u) ==
    LET cum_weights == Accumulate(weights)
        total == cum_weights[Len(weights)]
    IN  BisectRight(cum_weights, FracMul(u, total), 0, Len(weights) - 1)

\* random.sample(population, k) when the i-th call of randbelow returns
\* tape[i]: result[i] = pool[j]; pool[j] = pool[n - i - 1].
RECURSIVE SampleRec(_, _, _, _, _)
SampleRec(pool, k, tape, i, result) ==
    IF i = k THEN result
    ELSE LET j == tape[i + 1]
         IN  SampleRec([pool EXCEPT ![j + 1] = pool[Len(pool) - i]],
                       k, tape, i + 1, Append(result, pool[j + 1]))

Sample(population, k, tape) == SampleRec(population, k, tape, 0, << >>)

\* The lists of values randbelow may return during random.sample(.., k):
\* the first MaxStates calls return any index below MaxPick, later calls 0.
PickTapes(k) ==
    { [i \in 1..k |-> IF i <= MaxStates THEN f[i] ELSE 0] :
        f \in { g \in [1..Min2(k, MaxStates) -> 0..(MaxPick - 1)] :
                   \A i \in DOMAIN g : g[i] < PoolSize - (i - 1) } }

\* [op[0] for op in selected_operations]
FunctionsOf(selected_operations) ==
    [i \in 1..Len(selected_operations) |-> selected_operations[i].fn]

\* A plausible slip: the labels are read off the head of the catalogue
\* instead of the sampled entries.
NamesOfPool(selected_operations) ==
    [i \in 1..Len(selected_operations) |-> operation_pool[i].label]

\* [op[1] for op in selected_operations]
NamesOf(selected_operations) ==
    [i \in 1..Len(selected_operations) |-> selected_operations[i].label]

\* range(num_states - len(operation_pool)) of the synthesizing loop
SynthRange(n) == 1..(n - PoolSize)

\* functions_matrix and function_names after lines 133-146, when
\* random.sample draws tape and the i-th randint(1, 5) returns cs[i].
SampleOperators(n, tape, cs) ==
    LET selected_operations == Sample(operation_pool, Min2(n, PoolSize), tape)
    IN  [functions_matrix |->
             FunctionsOf(selected_operations)
                 \o [i \in SynthRange(n) |-> <<"addc", cs[i]>>],
         function_names |->
             NamesOf(selected_operations)
                 \o [i \in SynthRange(n) |-> SynthLabel(cs[i])]]

\* ------------------------------------------------------------------- state
VARIABLES
    initial_values,     \* argument of markov
    steps,              \* argument of markov
    initial_state,      \* argument of markov
    num_states,         \* argument of markov
    transition_matrix,  \* the rows built so far, then the chain's matrix
    functions_matrix,   \* the chain's functions, one per state
    function_names,     \* the chain's labels, one per state
    state,              \* markov_chain.state
    sequence,           \* the local list of markov
    step,               \* the loop variable of range(1, steps)
    trace,              \* the lines printed by the loop, as records
    draws,              \* number of values taken from the random module
    pc,                 \* "build", "sample", "construct", "loop",
                        \* "returned", "raised"
    error,              \* the exception that left markov, or "none"
    \* --- basic.py, run_sequence
    sequence_func,      \* the name of the generator passed to run_sequence
    current_value,      \* state.current_value: <<"scalar", n>> or <<"list", s>>
    state_step,         \* state.step
    iteration,          \* the counter of generation requests that succeeded
    user_input,         \* the stripped line read last
    num_steps,          \* the local num_steps of the last loop iteration
    next_values,        \* what the generator returned last, << >> if nothing
    produced,           \* every value generated in this run, in the order
                        \* the loop printed them
    caught,             \* the exception the last request raised, or "none"
    outcome,            \* what the last loop iteration printed
    rpc                 \* "idle", "start", "prompt", "exited", "sys_exit",
                        \* "raised"

args == <<initial_values, steps, initial_state, num_states>>

\* The variables of markov and those of run_sequence.
engine == <<initial_values, steps, initial_state, num_states,
            transition_matrix, functions_matrix, function_names, state,
            sequence, step, trace, draws, pc, error>>

runner == <<sequence_func, current_value, state_step, iteration, user_input,
            num_steps, next_values, produced, caught, outcome, rpc>>

vars == <<engine, runner>>

\* run_sequence is not running.
RunnerIdle ==
    /\ sequence_func = "none"
    /\ current_value = <<"scalar", 0>>
    /\ state_step = 0
    /\ iteration = 0
    /\ user_input = ""
    /\ num_steps = 0
    /\ next_values = << >>
    /\ produced = << >>
    /\ caught = "none"
    /\ outcome = "none"
    /\ rpc = "idle"

\* The call markov(initial_values, steps, initial_state, num_states).
Init ==
    /\ num_states \in 1..MaxStates
    /\ initial_values \in SeedLists
    /\ steps \in -1..MaxSteps
    /\ initial_state \in -(MaxStates + 1)..MaxStates
    /\ transition_matrix = << >>
    /\ functions_matrix = << >>
    /\ function_names = << >>
    /\ state = 0
    /\ sequence = << >>
    /\ step = 0
    /\ trace = << >>
    /\ draws = 0
    /\ pc = "build"
    /\ error = "none"
    /\ RunnerIdle

\* ----------------------------------------------------------------- actions
\* Lines 85-96: one iteration of the loop that builds the matrix.
BuildRow ==
    /\ pc = "build"
    /\ Len(transition_matrix) < num_states
    /\ \E row \in [1..num_states -> DrawVals] :
          LET i == Len(transition_matrix)
          IN  /\ draws' = draws + num_states
              /\ IF FracSum(DampRow(i, row)) = Zero
                 THEN \* p / row_sum with row_sum = 0.0
                      /\ pc' = "raised"
                      /\ error' = "ZeroDivisionError"
                      /\ UNCHANGED transition_matrix
                 ELSE /\ transition_matrix' =
                             Append(transition_matrix, MakeRow(i, row))
                      /\ pc' = IF i + 1 = num_states THEN "sample" ELSE "build"
                      /\ UNCHANGED error
    /\ UNCHANGED <<args, functions_matrix, function_names, state, sequence,
                   step, trace>>
    /\ UNCHANGED runner

\* Lines 133-146: random.sample of the catalogue, then the synthesized
\* operators when num_states exceeds the catalogue.
SampleOperations ==
    /\ pc = "sample"
    /\ \E tape \in PickTapes(Min2(num_states, PoolSize)) :
       \E cs \in [SynthRange(num_states) -> SynthConstants] :
          LET ops == SampleOperators(num_states, tape, cs)
          IN  /\ functions_matrix' = ops.functions_matrix
              /\ function_names' = ops.function_names
              /\ draws' = draws + Len(ops.functions_matrix)
    /\ pc' = "construct"
    /\ UNCHANGED <<args, transition_matrix, state, sequence, step, trace, error>>
    /\ UNCHANGED runner

\* Lines 150-163: MarkovChain(..., state=initial_state) and
\* sequence = initial_values.copy().
Construct ==
    /\ pc = "construct"
    /\ state' = initial_state
    /\ sequence' = initial_values
    /\ step' = 1
    /\ pc' = "loop"
    /\ UNCHANGED <<args, transition_matrix, functions_matrix, function_names,
                   trace, draws, error>>
    /\ UNCHANGED runner

\* A plausible slip: the two arguments are passed in the other order.
NextValueSwapped(fn, seq) == Apply(fn, PyGet(seq, -2), PyGet(seq, -1))

\* function(sequence[-1], sequence[-2])
NextValue(fn, seq) == Apply(fn, PyGet(seq, -1), PyGet(seq, -2))

\* A plausible slip: only the two values the next step reads are kept.
KeepLastTwo(seq, v) == <<seq[Len(seq)], v>>

\* sequence.append(v)
AppendValue(seq, v) == Append(seq, v)

\* A plausible slip: the printed values are sequence[:2].
StepRecordFirstTwo(k, new_state, function_name, seq) ==
    [step |-> k, state |-> new_state, function |-> function_name,
     last_two |-> SubSeq(seq, 1, 2)]

\* What line 171-173 prints: the step, the state after update_state, the
\* label read before it, and sequence[-2:].
StepRecord(k, new_state, function_name, seq) ==
    [step |-> k, state |-> new_state, function |-> function_name,
     last_two |-> SubSeq(seq, Len(seq) - 1, Len(seq))]

\* MarkovChain.update_state (lines 65-68) when random() returns u.
update_state(matrix, s, u) == Choices(PyGet(matrix, s), u)

\* A plausible slip: the loop runs through step = steps as well.
InRangeInclusive(k, n) == k <= n

\* The loop variable k is still in range(1, n).
InRange(k, n) == k < n

\* Lines 164-173: one iteration of the recurrence loop.
RecurrenceStep ==
    /\ pc = "loop"
    /\ InRange(step, steps)
    /\ IF \/ ~PyIndexOK(functions_matrix, state)   \* functions_matrix[state]
          \/ ~PyIndexOK(sequence, -2)              \* sequence[-1], sequence[-2]
       THEN /\ pc' = "raised"
            /\ error' = "IndexError"
            /\ UNCHANGED <<state, sequence, step, trace, draws>>
       ELSE IF ApplyRaises(PyGet(functions_matrix, state),
                           PyGet(sequence, -1), PyGet(sequence, -2))
       THEN /\ pc' = "raised"
            /\ error' = "ZeroDivisionError"
            /\ UNCHANGED <<state, sequence, step, trace, draws>>
       ELSE \E u \in DrawVals :
            LET function == PyGet(functions_matrix, state)
                function_name == PyGet(function_names, state)
                appended == AppendValue(sequence, NextValue(function, sequence))
                next_state == update_state(transition_matrix, state, u)
            IN  /\ sequence' = appended
                /\ state' = next_state
                /\ draws' = draws + 1
                /\ trace' = Append(trace, StepRecord(step, next_state,
                                                     function_name, appended))
                /\ step' = step + 1
                /\ UNCHANGED <<pc, error>>
    /\ UNCHANGED <<args, transition_matrix, functions_matrix, function_names>>
    /\ UNCHANGED runner

\* Line 174: range(1, steps) is exhausted, return sequence.
Return ==
    /\ pc = "loop"
    /\ ~InRange(step, steps)
    /\ pc' = "returned"
    /\ UNCHANGED <<args, transition_matrix, functions_matrix, function_names,
                   state, sequence, step, trace, draws, error>>
    /\ UNCHANGED runner

Next == BuildRow \/ SampleOperations \/ Construct \/ RecurrenceStep \/ Return

Spec == Init /\ [][Next]_vars

\* ------------------------------------------- the matrix builder on its own
\* The calls with valid seeds and the default initial state; only the loop
\* of lines 85-96 runs.
InitMatrix ==
    /\ Init
    /\ initial_values = <<2, 3>>
    /\ initial_state = 0

NextMatrix == BuildRow

SpecMatrix == InitMatrix /\ [][NextMatrix]_vars

\* ------------------------------------------ the operator sampling on its own
\* The state of markov at line 133, after a matrix was built from draws that
\* were all 1/3; num_states ranges over the small counts and over the counts
\* just above the size of the catalogue.
PoolCounts == (1..MaxStates) \cup ((PoolSize + 1)..(PoolSize + MaxExtra))

EqualDraws(n) == [i \in 1..n |-> [j \in 1..n |-> <<1, 3>>]]

InitPool ==
    /\ num_states \in PoolCounts
    /\ initial_values = <<2, 3>>
    /\ steps \in 1..MaxSteps
    /\ initial_state = 0
    /\ transition_matrix = BuildMatrix(num_states, EqualDraws(num_states))
    /\ functions_matrix = << >>
    /\ function_names = << >>
    /\ state = 0
    /\ sequence = << >>
    /\ step = 0
    /\ trace = << >>
    /\ draws = num_states * num_states
    /\ pc = "sample"
    /\ error = "none"
    /\ RunnerIdle

NextPool == SampleOperations

SpecPool == InitPool /\ [][NextPool]_vars

\* --------------------------------------------------- the engine on its own
\* The state of markov at line 164, the chain constructed and the seeds
\* copied, for the valid calls: the matrix is one the builder produces when
\* every row draws the same n values, the operators are sampled from the
\* catalogue.
EngineMatrices(n) ==
    { BuildMatrix(n, [i \in 1..n |-> d]) :
        d \in { e \in [1..n -> DrawVals] : FracSum(e) # Zero } }

InitEngine ==
    /\ num_states \in 1..MaxStates
    /\ initial_values \in { s \in SeedLists : Len(s) >= 2 }
    /\ steps \in 1..MaxSteps
    /\ initial_state \in 0..(num_states - 1)
    /\ transition_matrix \in EngineMatrices(num_states)
    /\ \E tape \in PickTapes(num_states) :
          LET ops == SampleOperators(num_states, tape, << >>)
          IN  /\ functions_matrix = ops.functions_matrix
              /\ function_names = ops.function_names
    /\ state = initial_state
    /\ sequence = initial_values
    /\ step = 1
    /\ trace = << >>
    /\ draws = num_states * num_states + num_states
    /\ pc = "loop"
    /\ error = "none"
    /\ RunnerIdle

NextEngine == RecurrenceStep \/ Return

SpecEngine == InitEngine /\ [][NextEngine]_vars

\* ================================================================= claims
ValidState == 0 <= initial_state /\ initial_state < num_states
Last(seq) == seq[Len(seq)]

\* C1: at every recurrence step the appended value is op(sequence[-1],
\* sequence[-2]) for the operator op bound to the state before the
\* transition: the most recent value is the first argument; for the label
\* "x - y" the value is last minus second-last, for "y - x" the reverse.
C1_OperandOrder ==
    [][(pc = "loop" /\ Len(sequence') = Len(sequence) + 1) =>
         LET x == sequence[Len(sequence)]
             y == sequence[Len(sequence) - 1]
             new == sequence'[Len(sequence')]
         IN  /\ new = Apply(PyGet(functions_matrix, state), x, y)
             /\ PyGet(function_names, state) = "x - y" => new = x - y
             /\ PyGet(function_names, state) = "y - x" => new = y - x
             /\ PyGet(function_names, state) = "y // x" =>
                    new = FloorDiv(y, IF x = 0 THEN 1 ELSE x)]_vars

\* A step has applied "x - y" to two different values.
C1_Witness ==
    /\ trace # << >>
    /\ Last(trace).function = "x - y"
    /\ Len(sequence) >= 3
    /\ sequence[Len(sequence)] =
           sequence[Len(sequence) - 1] - sequence[Len(sequence) - 2]
    /\ sequence[Len(sequence)] #
           sequence[Len(sequence) - 2] - sequence[Len(sequence) - 1]

\* C2: in an engine started with 0 <= initial_state < num_states the current
\* state index stays within 0..num_states-1, so functions_matrix[state] and
\* function_names[state] are defined.
C2_StateInRange ==
    (ValidState /\ pc \in {"loop", "returned"}) =>
        /\ 0 <= state /\ state < num_states
        /\ state + 1 \in DOMAIN functions_matrix
        /\ state + 1 \in DOMAIN function_names

\* Two transitions were taken and the chain moved to the last state.
C2_Witness ==
    /\ ValidState
    /\ Len(trace) >= 2
    /\ num_states = MaxStates
    /\ state = num_states - 1
    /\ trace[1].state # state

\* C3: a call with at least 2 initial values and steps >= 1 returns a
\* sequence of length len(initial_values) + steps.
C3_LengthIsSeedsPlusSteps ==
    (pc = "returned" /\ Len(initial_values) >= 2 /\ steps >= 1 /\ ValidState) =>
        Len(sequence) = Len(initial_values) + steps

C5_InsufficientSeedFirst ==
    Len(initial_values) < 2 =>
        /\ draws = 0
        /\ pc # "returned"
        /\ pc = "raised" => error = "InsufficientSeedError"
        /\ Len(sequence) <= Len(initial_values)

\* C6: with initial_state < 0 or initial_state >= num_states no recurrence
\* step is executed and no value is appended.
C6_InvalidStateNoStep ==
    ~ValidState =>
        /\ trace = << >>
        /\ Len(sequence) <= Len(initial_values)

\* C7: with steps < 1 the call fails instead of returning a sequence.
C7_InvalidStepCountFails ==
    steps < 1 => pc # "returned"

\* The rows of a matrix: num_states entries each, every entry in [0, 1],
\* the entries of a row summing to 1.
RowStochastic(row) ==
    /\ Len(row) = num_states
    /\ \A j \in 1..Len(row) : FracLeq(Zero, row[j]) /\ FracLeq(row[j], One)
    /\ FracSum(row) = One

\* C8: the matrix built for n states has n rows of n entries, every entry in
\* [0, 1], every row summing to 1 (in exact arithmetic).
C8_RowStochastic ==
    /\ \A i \in 1..Len(transition_matrix) : RowStochastic(transition_matrix[i])
    /\ pc = "sample" => Len(transition_matrix) = num_states

\* A full matrix with a damped diagonal entry strictly between 0 and 1.
C8_Witness ==
    /\ pc = "sample"
    /\ num_states = MaxStates
    /\ Len(transition_matrix) = num_states
    /\ \A i \in 1..num_states :
          /\ FracLess(Zero, transition_matrix[i][i])
          /\ FracLess(transition_matrix[i][i], <<1, 2>>)

\* C9: the construction of the matrix does not fail (a row whose draws are
\* all zero becomes the uniform distribution).
C9_ZeroRowDoesNotFail ==
    ~(pc = "raised" /\ Len(transition_matrix) < num_states)

\* The label the catalogue or the synthesizing loop gives to a function.
LabelOfFunction(fn) ==
    IF fn[1] = "pool" THEN operation_pool[fn[2]].label ELSE SynthLabel(fn[2])

\* C10: sampling yields exactly num_states functions and num_states labels,
\* label i being the label of function i; up to the size of the catalogue
\* every function is a catalogue operator and none appears twice.
C10_SamplingShape ==
    pc = "construct" =>
        /\ Len(functions_matrix) = num_states
        /\ Len(function_names) = num_states
        /\ \A i \in 1..num_states :
              function_names[i] = LabelOfFunction(functions_matrix[i])
        /\ \A i, j \in 1..Min2(num_states, PoolSize) :
              /\ functions_matrix[i][1] = "pool"
              /\ i # j => functions_matrix[i] # functions_matrix[j]

\* More states than catalogue entries, sampled in an order that is not the
\* catalogue's.
C10_Witness ==
    /\ pc = "construct"
    /\ num_states > PoolSize
    /\ Len(functions_matrix) = num_states
    /\ functions_matrix[1] = <<"pool", 2>>
    /\ functions_matrix[num_states][1] = "addc"

\* C11: with more states than catalogue entries, the label of every
\* synthesized operator differs from the label of every other operator of
\* the assignment.
C11_SynthLabelsDistinct ==
    (pc = "construct" /\ num_states > PoolSize) =>
        \A i \in (PoolSize + 1)..num_states :
            \A j \in 1..num_states :
                i # j => function_names[i] # function_names[j]

\* The state the chain was in when step k began.
StateBefore(k) == IF k = 1 THEN initial_state ELSE trace[k - 1].state

\* C13: one step record per appended value, numbered 1, 2, ... in order; a
\* record carries the label of the operator that produced the value (the one
\* bound to the state before the transition), the state the transition
\* committed, and the last two elements of the sequence after the append.
C13_StepRecords ==
    pc \in {"loop", "returned"} =>
        LET L0 == Len(initial_values)
        IN  /\ Len(trace) = Len(sequence) - L0
            /\ \A k \in 1..Len(trace) :
                  /\ trace[k].step = k
                  /\ trace[k].function = PyGet(function_names, StateBefore(k))
                  /\ sequence[L0 + k] =
                        Apply(PyGet(functions_matrix, StateBefore(k)),
                              sequence[L0 + k - 1], sequence[L0 + k - 2])
                  /\ trace[k].last_two = <<sequence[L0 + k - 1], sequence[L0 + k]>>
                  /\ k = Len(trace) => trace[k].state = state

\* Three records, the chain having changed state and operator on the way.
C13_Witness ==
    /\ Len(trace) >= 3
    /\ trace[2].state # trace[1].state
    /\ trace[2].function # trace[1].function
    /\ trace[3].last_two[1] = trace[2].last_two[2]

\* C14: a recurrence step leaves the arguments, the transition matrix, the
\* functions and their labels unchanged, keeps every element the sequence
\* had and appends exactly one.
C14_StepFrame ==
    [][(pc = "loop" /\ step' = step + 1) =>
         /\ transition_matrix' = transition_matrix
         /\ functions_matrix' = functions_matrix
         /\ function_names' = function_names
         /\ args' = args
         /\ Len(sequence') = Len(sequence) + 1
         /\ SubSeq(sequence', 1, Len(sequence)) = sequence]_vars

\* Steps were taken from three seeds, the state moved, the seeds are intact.
C14_Witness ==
    /\ Len(trace) >= 2
    /\ Len(initial_values) = 3
    /\ state # initial_state
    /\ Len(sequence) = Len(initial_values) + Len(trace)
    /\ SubSeq(sequence, 1, Len(initial_values)) = initial_values

\* C15: a valid call with num_states = 1 never fails: the matrix is [[1]],
\* one operator is bound, and the current state is 0 at every step.
C15_SingleStateCompletes ==
    (/\ num_states = 1
     /\ Len(initial_values) >= 2
     /\ steps >= 1
     /\ initial_state = 0) =>
        /\ pc # "raised"
        /\ pc # "build" => transition_matrix = << << One >> >>
        /\ pc \in {"construct", "loop", "returned"} =>
              Len(functions_matrix) = 1 /\ Len(function_names) = 1
        /\ pc \in {"loop", "returned"} => state = 0

\* ------------------------------------------------ the operators on their own
\* The state of markov at line 164 of a call markov([y, x], 2, 0, 1) whose
\* random.sample picked the k-th catalogue entry: the one step applies that
\* operator to (x, y), for every entry and all small x and y.
Operands == (-MaxOperand)..MaxOperand

InitOperators ==
    /\ num_states = 1
    /\ initial_values \in { <<y, x>> : x \in Operands, y \in Operands }
    /\ steps = 2
    /\ initial_state = 0
    /\ transition_matrix = << << One >> >>
    /\ \E k \in 1..PoolSize :
          /\ functions_matrix = << operation_pool[k].fn >>
          /\ function_names = << operation_pool[k].label >>
    /\ state = initial_state
    /\ sequence = initial_values
    /\ step = 1
    /\ trace = << >>
    /\ draws = 2
    /\ pc = "loop"
    /\ error = "none"
    /\ RunnerIdle

NextOperators == RecurrenceStep \/ Return

SpecOperators == InitOperators /\ [][NextOperators]_vars

\* C16: no catalogue operator fails on any pair of integers, zero included;
\* "x // y" and "y // x" divide by 1 when their divisor is zero.
C16_OperatorsTotal ==
    /\ pc # "raised"
    /\ pc = "returned" =>
          LET x == sequence[2]
              y == sequence[1]
              v == sequence[3]
          IN  /\ Len(sequence) = 3
              /\ function_names = <<"x // y">> =>
                    /\ y = 0 => v = x
                    /\ y > 0 => (y * v <= x /\ x < y * v + y)
                    /\ y < 0 => (y * v >= x /\ x > y * v + y)
              /\ function_names = <<"y // x">> =>
                    /\ x = 0 => v = y
              /\ function_names = <<"(x + y) // 2">> =>
                    2 * v <= x + y /\ x + y <= 2 * v + 1

\* "x // y" was applied to a non-zero x and y = 0 and returned x.
C16_Witness ==
    /\ pc = "returned"
    /\ function_names = <<"x // y">>
    /\ sequence[1] = 0
    /\ sequence[2] # 0
    /\ sequence[3] = sequence[2]

\* ======================================================= basic.py generators
\* state.current_value is <<"scalar", n>> or <<"list", s>>; a generator
\* returns [error, values]: the exception it raised ("none" if none) and the
\* list it returned.
IsList(cv) == cv[1] = "list"
Returned(values) == [error |-> "none", values |-> values]
Raised(exception) == [error |-> exception, values |-> << >>]

\* current_value[-1] of a list, the value itself of a scalar.
CurrentOf(cv) == IF IsList(cv) THEN PyGet(cv[2], -1) ELSE cv[2]
\* current_value[-1] raises IndexError on an empty list.
CurrentRaises(cv) == IsList(cv) /\ cv[2] = << >>

RECURSIVE Pow(_, _)
Pow(b, e) == IF e = 0 THEN 1 ELSE b * Pow(b, e - 1)

\* int(v ** 0.5) for an integer v >= 0.
ISqrt(v) == CHOOSE r \in 0..v : r * r <= v /\ (r + 1) * (r + 1) > v

\* Lines 30-46.
count_by_step(cv, st, n) ==
    IF CurrentRaises(cv) THEN Raised("IndexError")
    ELSE Returned([i \in 1..n |-> CurrentOf(cv) + i * st])

\* A plausible slip: every history generator asks for three values.
SeedsNeededThree(func) == 3

\* The number of values a history generator checks for (lines 60, 196, 257).
SeedsNeeded(func) == IF func = "tribonacci" THEN 3 ELSE 2

\* not isinstance(state.current_value, list) or len(state.current_value) < K
TooFewSeeds(func, cv) == ~IsList(cv) \/ Len(cv[2]) < SeedsNeeded(func)

\* The loop of lines 66-69: n more values, each the sum of the last two.
RECURSIVE FibLoop(_, _)
FibLoop(values, n) ==
    IF n <= 0 THEN << >>
    ELSE LET next_value == PyGet(values, -1) + PyGet(values, -2)
         IN  <<next_value>> \o FibLoop(Append(values, next_value), n - 1)

\* Lines 49-71.
fibonacci(cv, st, n) ==
    IF TooFewSeeds("fibonacci", cv) THEN Raised("ValueError")
    ELSE Returned(FibLoop(cv[2], n))

\* Lines 74-91.
geometric_sequence(cv, st, n) ==
    IF CurrentRaises(cv) THEN Raised("IndexError")
    ELSE LET ratio == IF st # 0 THEN st ELSE 2
         IN  Returned([i \in 1..n |-> CurrentOf(cv) * Pow(ratio, i)])

\* A plausible slip: the squares are counted from the value itself, not
\* from its root.
square_sequenceFromValue(cv, st, n) ==
    IF CurrentRaises(cv) THEN Raised("IndexError")
    ELSE LET root == IF CurrentOf(cv) >= 0 THEN CurrentOf(cv) ELSE 0
         IN  Returned([i \in 1..n |-> (root + i) * (root + i)])

\* Lines 94-110.
square_sequence(cv, st, n) ==
    IF CurrentRaises(cv) THEN Raised("IndexError")
    ELSE LET root == IF CurrentOf(cv) >= 0 THEN ISqrt(CurrentOf(cv)) ELSE 0
         IN  Returned([i \in 1..n |-> (root + i) * (root + i)])

\* Lines 125-135.
is_prime(n) ==
    IF n < 2 THEN FALSE
    ELSE IF n = 2 THEN TRUE
    ELSE IF n % 2 = 0 THEN FALSE
    ELSE \A i \in 3..ISqrt(n) : i % 2 = 1 => n % i # 0

\* The loop of lines 145-148.
RECURSIVE PrimeLoop(_, _)
PrimeLoop(candidate, n) ==
    IF n <= 0 THEN << >>
    ELSE IF is_prime(candidate)
         THEN <<candidate>> \o PrimeLoop(candidate + 1, n - 1)
         ELSE PrimeLoop(candidate + 1, n)

\* Lines 113-150.
prime_sequence(cv, st, n) ==
    IF CurrentRaises(cv) THEN Raised("IndexError")
    ELSE Returned(PrimeLoop(CurrentOf(cv) + 1, n))

\* The body of the loop of lines 172-180: the next value of current.
CollatzStep(current) ==
    IF current = 1 THEN 1
    ELSE IF current % 2 = 0 THEN current \div 2
    ELSE 3 * current + 1

RECURSIVE CollatzLoop(_, _)
CollatzLoop(current, n) ==
    IF n <= 0 THEN << >>
    ELSE <<CollatzStep(current)>> \o CollatzLoop(CollatzStep(current), n - 1)

\* Lines 153-182.
collatz_sequence(cv, st, n) ==
    IF CurrentRaises(cv) THEN Raised("IndexError")
    ELSE Returned(CollatzLoop(CurrentOf(cv), n))

\* The loop of lines 202-205.
RECURSIVE TribLoop(_, _)
TribLoop(values, n) ==
    IF n <= 0 THEN << >>
    ELSE LET next_value ==
                 PyGet(values, -1) + PyGet(values, -2) + PyGet(values, -3)
         IN  <<next_value>> \o TribLoop(Append(values, next_value), n - 1)

\* Lines 185-207.
tribonacci(cv, st, n) ==
    IF TooFewSeeds("tribonacci", cv) THEN Raised("ValueError")
    ELSE Returned(TribLoop(cv[2], n))

\* The loop of lines 223-234: <<n, fact>> with fact the first factorial
\* that is not below v.
RECURSIVE FactorialFind(_, _, _)
FactorialFind(n, fact, v) ==
    IF fact < v THEN FactorialFind(n + 1, fact * (n + 1), v) ELSE <<n, fact>>

\* The loop of lines 237-240.
RECURSIVE FactorialLoop(_, _, _)
FactorialLoop(n, fact, k) ==
    IF k <= 0 THEN << >>
    ELSE <<fact * (n + 1)>> \o FactorialLoop(n + 1, fact * (n + 1), k - 1)

\* Lines 210-242.
factorial_sequence(cv, st, n) ==
    IF CurrentRaises(cv) THEN Raised("IndexError")
    ELSE LET found == FactorialFind(1, 1, CurrentOf(cv))
         IN  Returned(FactorialLoop(found[1], found[2], n))

\* The loop of lines 264-267.
RECURSIVE CustomLoop(_, _, _)
CustomLoop(values, st, n) ==
    IF n <= 0 THEN << >>
    ELSE LET next_value == 2 * PyGet(values, -1) - PyGet(values, -2) + st
         IN  <<next_value>> \o CustomLoop(Append(values, next_value), st, n - 1)

\* Lines 245-269.
custom_recurrence(cv, st, n) ==
    IF TooFewSeeds("custom_recurrence", cv) THEN Raised("ValueError")
    ELSE Returned(CustomLoop(cv[2], st, n))

\* sequence_func(state, num_steps=n) for the generator named func.
CallGenerator(func, cv, st, n) ==
    CASE func = "count_by_step" -> count_by_step(cv, st, n)
      [] func = "fibonacci" -> fibonacci(cv, st, n)
      [] func = "geometric_sequence" -> geometric_sequence(cv, st, n)
      [] func = "square_sequence" -> square_sequence(cv, st, n)
      [] func = "prime_sequence" -> prime_sequence(cv, st, n)
      [] func = "collatz_sequence" -> collatz_sequence(cv, st, n)
      [] func = "tribonacci" -> tribonacci(cv, st, n)
      [] func = "factorial_sequence" -> factorial_sequence(cv, st, n)
      [] func = "custom_recurrence" -> custom_recurrence(cv, st, n)

\* The menu: key -> (function, initial value, initial step), lines 442-452.
AVAILABLE_SEQUENCES ==
    << <<"count_by_step", <<"scalar", 0>>, 1>>,
       <<"fibonacci", <<"list", <<0, 1>> >>, 1>>,
       <<"geometric_sequence", <<"scalar", 1>>, 2>>,
       <<"square_sequence", <<"scalar", 0>>, 1>>,
       <<"prime_sequence", <<"scalar", 1>>, 1>>,
       <<"collatz_sequence", <<"scalar", 10>>, 1>>,
       <<"tribonacci", <<"list", <<0, 0, 1>> >>, 1>>,
       <<"factorial_sequence", <<"scalar", 1>>, 1>>,
       <<"custom_recurrence", <<"list", <<1, 2>> >>, 1>> >>

\* ======================================================= basic.py run_sequence
MaxRequest == 2
MaxIterations == 2
MaxStart == 10

\* What input() can return at the prompt.
Inputs ==
    {"", "  ", "x", "X", " x ", "exit", "abc", "1.5", "-1", "0", "+1"}
        \cup {ToString(n) : n \in 1..MaxRequest}
        \cup {" " \o ToString(n) \o " " : n \in 1..MaxRequest}

\* str.strip() on the inputs above: those without surrounding whitespace are
\* their own result.
Strip(raw) ==
    IF raw = "  " THEN ""
    ELSE IF raw = " x " THEN "x"
    ELSE IF \E n \in 1..MaxRequest : raw = " " \o ToString(n) \o " "
         THEN ToString(CHOOSE n \in 1..MaxRequest :
                           raw = " " \o ToString(n) \o " ")
    ELSE raw

\* str.lower() on the stripped inputs: only "X" has an upper-case letter.
Lower(text) == IF text = "X" THEN "x" ELSE text

\* The integers whose literals the inputs can spell.
Spellable == (-1)..(MaxRequest + 1)

\* int(text): an optional sign followed by decimal digits; anything else
\* raises ValueError.
IntOf(text) ==
    IF \E n \in Spellable : text = ToString(n)
    THEN [error |-> "none", value |-> CHOOSE n \in Spellable : text = ToString(n)]
    ELSE IF \E n \in 0..(MaxRequest + 1) : text = "+" \o ToString(n)
    THEN [error |-> "none",
          value |-> CHOOSE n \in 0..(MaxRequest + 1) : text = "+" \o ToString(n)]
    ELSE [error |-> "ValueError", value |-> 0]

\* A plausible slip: the generated values replace the history.
UpdatedValueReplace(cv, values) ==
    IF values = << >> THEN cv
    ELSE IF IsList(cv) THEN <<"list", values>>
    ELSE <<"scalar", PyGet(values, -1)>>

\* Lines 375-383: state.current_value after a call that returned values.
UpdatedValue(cv, values) ==
    IF values = << >> THEN cv
    ELSE IF IsList(cv) THEN <<"list", cv[2] \o values>>
    ELSE <<"scalar", PyGet(values, -1)>>

\* A plausible slip: the counter moves on every request.
UpdatedIterationAlways(count, result) == count + 1

\* Line 385: the counter moves only when the call returned values.
UpdatedIteration(count, result) ==
    IF result.error = "none" /\ result.values # << >> THEN count + 1 ELSE count

\* Lines 302-321: the banner reads current_value[-1] of a list.
Banner ==
    /\ rpc = "start"
    /\ IF CurrentRaises(current_value)
       THEN /\ rpc' = "raised"
            /\ caught' = "IndexError"
       ELSE /\ rpc' = "prompt"
            /\ caught' = "none"
    /\ outcome' = "banner"
    /\ UNCHANGED <<sequence_func, current_value, state_step, iteration,
                   user_input, num_steps, next_values, produced>>
    /\ UNCHANGED engine

\* Lines 338-356: the input is the exit command.
ExitInput ==
    /\ rpc = "prompt"
    /\ \E raw \in Inputs :
          /\ Lower(Strip(raw)) = "x"
          /\ user_input' = Strip(raw)
    /\ rpc' = "exited"
    /\ outcome' = "exit"
    /\ caught' = "none"
    /\ UNCHANGED <<sequence_func, current_value, state_step, iteration,
                   num_steps, next_values, produced>>
    /\ UNCHANGED engine

\* Lines 338-370: the input is not a positive integer; the loop continues.
RejectInput ==
    /\ rpc = "prompt"
    /\ \E raw \in Inputs :
          LET text == Strip(raw)
              parsed == IntOf(text)
          IN  /\ Lower(text) # "x"
              /\ text # ""
              /\ parsed.error # "none" \/ parsed.value <= 0
              /\ user_input' = text
              /\ IF parsed.error # "none"
                 THEN /\ num_steps' = 1
                      /\ outcome' = "invalid"
                 ELSE /\ num_steps' = parsed.value
                      /\ outcome' = "not_positive"
    /\ caught' = "none"
    /\ UNCHANGED <<sequence_func, current_value, state_step, iteration,
                   next_values, produced, rpc>>
    /\ UNCHANGED engine

\* Lines 338-414 on the input raw, Enter or a positive integer: the
\* generator is called and the state updated, or its exception caught.
Request(raw) ==
    LET text == Strip(raw)
        parsed == IntOf(text)
        requested == IF text = "" THEN 1 ELSE parsed.value
        result == CallGenerator(sequence_func, current_value,
                                state_step, requested)
    IN  /\ Lower(text) # "x"
        /\ text = "" \/ (parsed.error = "none" /\ parsed.value > 0)
        /\ user_input' = text
        /\ num_steps' = requested
        /\ IF result.error = "none"
           THEN /\ next_values' = result.values
                /\ produced' = produced \o result.values
                /\ current_value' = UpdatedValue(current_value,
                                                 result.values)
                /\ outcome' = "generated"
           ELSE /\ UNCHANGED <<next_values, produced, current_value>>
                /\ outcome' = "caught"
        /\ iteration' = UpdatedIteration(iteration, result)
        /\ caught' = result.error

\* A loop iteration that generates, while the counter is below
\* MaxIterations.
GenerateRequest ==
    /\ rpc = "prompt"
    /\ iteration < MaxIterations
    /\ \E raw \in Inputs : Request(raw)
    /\ UNCHANGED <<sequence_func, state_step, rpc>>
    /\ UNCHANGED engine

\* Lines 416-435: Ctrl+C or end of input at the prompt ends the process.
EndOfInput ==
    /\ rpc = "prompt"
    /\ rpc' = "sys_exit"
    /\ outcome' = "eof"
    /\ caught' \in {"KeyboardInterrupt", "EOFError"}
    /\ UNCHANGED <<sequence_func, current_value, state_step, iteration,
                   user_input, num_steps, next_values, produced>>
    /\ UNCHANGED engine

\* The generators by kind of state they work on.
HistoryGenerators == {"fibonacci", "tribonacci", "custom_recurrence"}
ScalarGenerators ==
    {"count_by_step", "geometric_sequence", "square_sequence",
     "prime_sequence", "collatz_sequence", "factorial_sequence"}

\* run_sequence(sequence_func, initial_value, initial_step): the menu's
\* calls, every generator on small scalars and lists, and the Collatz
\* generator on every start up to MaxStart.
RunnerCalls ==
    {AVAILABLE_SEQUENCES[k] : k \in 1..Len(AVAILABLE_SEQUENCES)}
        \cup ((HistoryGenerators \cup ScalarGenerators)
                \X ({<<"scalar", v>> : v \in {-1, 0, 1, 2}}
                      \cup {<<"list", s>> :
                              s \in {<< >>, <<1>>, <<0, 1>>, <<1, 2>>,
                                     <<0, 0, 1>>, <<1, 1, 2>>}})
                \X {0, 1, 2})
        \cup {<<"collatz_sequence", <<"scalar", v>>, 1>> : v \in 1..MaxStart}

\* The state after lines 299-300, with the engine at rest.
InitRunner ==
    /\ \E call \in RunnerCalls :
          /\ sequence_func = call[1]
          /\ current_value = call[2]
          /\ state_step = call[3]
    /\ iteration = 0
    /\ user_input = ""
    /\ num_steps = 0
    /\ next_values = << >>
    /\ produced = << >>
    /\ caught = "none"
    /\ outcome = "none"
    /\ rpc = "start"
    /\ initial_values = << >>
    /\ steps = 0
    /\ initial_state = 0
    /\ num_states = 1
    /\ transition_matrix = << >>
    /\ functions_matrix = << >>
    /\ function_names = << >>
    /\ state = 0
    /\ sequence = << >>
    /\ step = 0
    /\ trace = << >>
    /\ draws = 0
    /\ pc = "idle"
    /\ error = "none"

NextRunner ==
    \/ Banner
    \/ ExitInput
    \/ RejectInput
    \/ GenerateRequest
    \/ EndOfInput

SpecRunner == InitRunner /\ [][NextRunner]_vars

\* C17: in run_sequence, when the sequence function raises during a
\* generation request, the error is caught, current_value and the iteration
\* counter are exactly what they were before the request, and the loop goes
\* on to accept the next input.
C17_ErrorCaughtStateKept ==
    [][(/\ rpc = "prompt"
        /\ outcome' \in {"generated", "caught"}
        /\ CallGenerator(sequence_func, current_value, state_step,
                         num_steps').error # "none")
          => /\ outcome' = "caught"
             /\ caught' = CallGenerator(sequence_func, current_value,
                                        state_step, num_steps').error
             /\ current_value' = current_value
             /\ iteration' = iteration
             /\ rpc' = "prompt"]_vars

\* A tribonacci run on two seeds has caught the generator's ValueError on a
\* request for two values, and is back at the prompt.
C17_Witness ==
    /\ sequence_func = "tribonacci"
    /\ current_value = <<"list", <<0, 1>> >>
    /\ outcome = "caught"
    /\ caught = "ValueError"
    /\ num_steps = 2
    /\ iteration = 0
    /\ rpc = "prompt"

\* C18: fibonacci and custom_recurrence called with a scalar state or a
\* history of fewer than 2 values, and tribonacci called with a scalar state
\* or a history of fewer than 3 values, fail with an error and return no
\* values; with enough seeds they return exactly num_steps values.
C18_SeedCountValidated ==
    [][(/\ rpc = "prompt"
        /\ sequence_func \in HistoryGenerators
        /\ outcome' \in {"generated", "caught"})
          => LET needed == IF sequence_func = "tribonacci" THEN 3 ELSE 2
                 short == \/ current_value[1] = "scalar"
                          \/ Len(current_value[2]) < needed
             IN  IF short
                 THEN /\ outcome' = "caught"
                      /\ caught' = "ValueError"
                      /\ next_values' = next_values
                      /\ current_value' = current_value
                 ELSE /\ outcome' = "generated"
                      /\ caught' = "none"
                      /\ Len(next_values') = num_steps']_vars

\* A fibonacci run on exactly two seeds has passed the seed check and
\* returned the two values asked for.
C18_Witness ==
    /\ sequence_func = "fibonacci"
    /\ current_value = <<"list", <<1, 2, 3, 5>> >>
    /\ next_values = <<3, 5>>
    /\ num_steps = 2
    /\ outcome = "generated"

\* A loop iteration that read an input: every step from the prompt except
\* the end of input.
InputRead == rpc = "prompt" /\ rpc' # "sys_exit"

\* A successful request for N >= 1 values: a list state is its previous
\* content followed by the N generated values, a scalar state is the last
\* generated value, and the counter has moved by one.
RequestApplied ==
    outcome' = "generated" =>
        /\ num_steps' >= 1
        /\ Len(next_values') = num_steps'
        /\ iteration' = iteration + 1
        /\ current_value'[1] = current_value[1]
        /\ current_value[1] = "list" =>
              /\ Len(current_value'[2]) = Len(current_value[2]) + num_steps'
              /\ SubSeq(current_value'[2], 1, Len(current_value[2]))
                     = current_value[2]
              /\ SubSeq(current_value'[2], Len(current_value[2]) + 1,
                        Len(current_value'[2])) = next_values'
        /\ current_value[1] = "scalar" =>
              current_value'[2] = next_values'[Len(next_values')]

\* The input is not an integer, or is an integer <= 0.
NotPositiveInteger(text) ==
    IntOf(text).error # "none" \/ IntOf(text).value <= 0

StateKept == current_value' = current_value /\ iteration' = iteration

\* The input 'x' or 'X' ends the loop.
ExitEndsLoop == user_input' \in {"x", "X"} => rpc' = "exited"

\* C19 as stated: in run_sequence, a successful request for N >= 1 values on
\* a list state leaves the list equal to its previous content followed by
\* exactly the N generated values, on a scalar state sets current_value to
\* the last generated value, and increases the iteration counter by exactly
\* 1; an input that is not an integer or is an integer <= 0 leaves
\* current_value and the iteration counter unchanged; the input 'x' or 'X'
\* ends the loop.
C19_Original ==
    [][InputRead =>
         /\ RequestApplied
         /\ NotPositiveInteger(user_input') => StateKept
         /\ ExitEndsLoop]_vars

\* C19 amended: as C19, with the middle clause restricted to inputs that are
\* not empty once stripped: the empty input (Enter) is a request for one
\* value.
C19_RunnerStateUpdate ==
    [][InputRead =>
         /\ RequestApplied
         /\ (user_input' # "" /\ NotPositiveInteger(user_input'))
               => (StateKept /\ outcome' \notin {"generated", "caught"})
         /\ ExitEndsLoop]_vars

\* After one successful request the tribonacci history has been extended by
\* a second request for two values, and the counter stands at two.
C19_Witness ==
    /\ sequence_func = "tribonacci"
    /\ current_value = <<"list", <<0, 0, 1, 1, 2, 4>> >>
    /\ next_values = <<2, 4>>
    /\ iteration = 2
    /\ outcome = "generated"

\* The Collatz map: n/2 when n is even and 3n+1 when n is odd.
CollatzMap(n) == IF n % 2 = 0 THEN n \div 2 ELSE 3 * n + 1

\* C20: each value produced by collatz_sequence is the Collatz map of the
\* preceding value (of the current state for the first value), for every
\* positive starting value and every num_steps.
C20_CollatzMapFollowed ==
    [][(/\ rpc = "prompt"
        /\ sequence_func = "collatz_sequence"
        /\ current_value[1] = "scalar"
        /\ current_value[2] > 0
        /\ outcome' = "generated")
          => /\ Len(next_values') = num_steps'
             /\ \A i \in 1..Len(next_values') :
                   next_values'[i] =
                       CollatzMap(IF i = 1 THEN current_value[2]
                                  ELSE next_values'[i - 1])]_vars

\* ============================================ runs started from the menu
MaxProduced == 6

\* The calls main makes: run_sequence on an entry of AVAILABLE_SEQUENCES.
MenuCalls == {AVAILABLE_SEQUENCES[k] : k \in 1..Len(AVAILABLE_SEQUENCES)}

\* The menu's entry for a generator.
MenuEntry(func) == CHOOSE entry \in MenuCalls : entry[1] = func

InitMenu ==
    /\ InitRunner
    /\ <<sequence_func, current_value, state_step>> \in MenuCalls

\* A loop iteration that generates, while the run has produced no more than
\* MaxProduced values.
MenuRequest ==
    /\ rpc = "prompt"
    /\ \E raw \in Inputs :
          /\ Request(raw)
          /\ Len(produced') <= MaxProduced
    /\ UNCHANGED <<sequence_func, state_step, rpc>>
    /\ UNCHANGED engine

NextMenu ==
    \/ Banner
    \/ ExitInput
    \/ RejectInput
    \/ MenuRequest
    \/ EndOfInput

SpecMenu == InitMenu /\ [][NextMenu]_vars

\* C21: for every generator of AVAILABLE_SEQUENCES started from its menu
\* seed, N successive requests for one value each have produced the same N
\* values, and left the same current_value, as one request for N values.
C21_BatchEqualsIncremental ==
    (produced # << >> /\ iteration = Len(produced))
        => LET entry == MenuEntry(sequence_func)
               batch == CallGenerator(entry[1], entry[2], entry[3],
                                      Len(produced))
           IN  /\ batch.error = "none"
               /\ produced = batch.values
               /\ current_value = UpdatedValue(entry[2], batch.values)

\* Four single requests to the factorial generator, started from 1, have
\* produced 2!, 3!, 4! and 5!.
C21_Witness ==
    /\ sequence_func = "factorial_sequence"
    /\ iteration = 4
    /\ produced = <<2, 6, 24, 120>>
    /\ current_value = <<"scalar", 120>>

====
